---- MODULE Spec2Model ----
(***************************************************************************)
(* Model of app.py: the exposure calculator (the two sliders and the       *)
(* update_dose callback), the exposure source table, the sample doses      *)
(* dose_values and the five dose-response functions.                       *)
(*                                                                         *)
(* The program computes on IEEE-754 doubles (Python floats and numpy       *)
(* float64).  A double is modelled exactly, as sign, odd mantissa and      *)
(* exponent, and every literal, product, sum, power, comparison and        *)
(* formatting step is rounded as the machine rounds it.                    *)
(***************************************************************************)
EXTENDS Integers, Sequences, FiniteSets, TLC

VARIABLES
    flight_slider,        \* value of dcc.Slider 'flight-slider'
    xray_slider,          \* value of dcc.Slider 'xray-slider'
    total_dose_output,    \* children of 'total-dose-output' ("" before the first callback)
    radiation_sources,    \* the module-level dict, in thousandths of a mSv
    call,                 \* the model call: [model, dose] and, for the linear
                          \* threshold model, optionally threshold; dose is a
                          \* double or an array [items |-> sequence of doubles]
    pc,                   \* "idle", or "called" / "returned" for the model call
    risk                  \* its return value, of the shape of dose

vars == <<flight_slider, xray_slider, total_dose_output, radiation_sources, call, pc, risk>>

calcVars == <<flight_slider, xray_slider, total_dose_output, radiation_sources>>
modelVars == <<call, pc, risk>>

----------------------------------------------------------------------------
(* Program constants *)

FLIGHT_SLIDER_MAX == 50
XRAY_SLIDER_MAX == 20
SLIDER_INITIAL == 0

\* the per-flight dose the FAQ text quotes (0.035 mSv)
FLIGHT_DOSE_FAQ_MILLI == 35
\* the literals 0.04 and 0.1 of update_dose, in thousandths of a mSv
FLIGHT_DOSE_MILLI == 40
XRAY_DOSE_MILLI == 100

\* the dict literal of lines 13-22, values in thousandths of a mSv
SourceTable ==
    "Background Radiation (Annual Avg)" :> 3000 @@
    "Chest X-ray" :> 100 @@
    "Dental X-ray" :> 5 @@
    "Mammogram" :> 400 @@
    "CT Scan (Abdomen)" :> 8000 @@
    "Flight (NYC to LA)" :> 40 @@
    "Smoking (1 pack/day, Annual)" :> 70000 @@
    "Fukushima Evacuation Zone (Annual)" :> 12000

\* np.linspace(0, 100, 100)
DOSE_START == 0
DOSE_STOP == 100
NUM_SAMPLES == 100

DEFAULT_THRESHOLD == 50
HORMESIS_BREAK == 20

----------------------------------------------------------------------------
(* Natural numbers of any size: little-endian sequences of 14-bit limbs,   *)
(* with no zero limb at the top (zero is the empty sequence).              *)

LimbBase == 2^14

Limb(a, i) == IF i >= 1 /\ i <= Len(a) THEN a[i] ELSE 0

RECURSIVE Trim(_)
Trim(a) ==
    IF a = <<>> THEN a
    ELSE IF a[Len(a)] = 0 THEN Trim(SubSeq(a, 1, Len(a) - 1)) ELSE a

\* n < 2^28
NatOfInt(n) == Trim(<<n % LimbBase, n \div LimbBase>>)

\* a < 2^28
NatToInt(a) == Limb(a, 1) + LimbBase * Limb(a, 2)

RECURSIVE AddFrom(_, _, _, _)
AddFrom(a, b, i, c) ==
    IF i > Len(a) /\ i > Len(b)
    THEN IF c = 0 THEN <<>> ELSE <<c>>
    ELSE LET t == Limb(a, i) + Limb(b, i) + c
         IN  <<t % LimbBase>> \o AddFrom(a, b, i + 1, t \div LimbBase)

NatAdd(a, b) == AddFrom(a, b, 1, 0)

RECURSIVE SubFrom(_, _, _, _)
SubFrom(a, b, i, c) ==
    IF i > Len(a) THEN <<>>
    ELSE LET t == a[i] - Limb(b, i) - c
         IN  <<t % LimbBase>> \o SubFrom(a, b, i + 1, IF t < 0 THEN 1 ELSE 0)

\* a - b for a >= b
NatSub(a, b) == Trim(SubFrom(a, b, 1, 0))

RECURSIVE CmpFrom(_, _, _)
CmpFrom(a, b, i) ==
    IF i = 0 THEN 0
    ELSE IF a[i] < b[i] THEN -1
    ELSE IF a[i] > b[i] THEN 1
    ELSE CmpFrom(a, b, i - 1)

\* -1, 0, 1 as a < b, a = b, a > b
NatCmp(a, b) ==
    IF Len(a) < Len(b) THEN -1
    ELSE IF Len(a) > Len(b) THEN 1
    ELSE CmpFrom(a, b, Len(a))

RECURSIVE MulLimbFrom(_, _, _, _)
MulLimbFrom(a, k, i, c) ==
    IF i > Len(a)
    THEN IF c = 0 THEN <<>> ELSE <<c>>
    ELSE LET t == a[i] * k + c
         IN  <<t % LimbBase>> \o MulLimbFrom(a, k, i + 1, t \div LimbBase)

\* a * k for one limb k
NatMulLimb(a, k) == IF k = 0 THEN <<>> ELSE MulLimbFrom(a, k, 1, 0)

RECURSIVE NatMul(_, _)
NatMul(a, b) ==
    IF a = <<>> \/ b = <<>> THEN <<>>
    ELSE LET rest == NatMul(a, Tail(b))
         IN  NatAdd(NatMulLimb(a, b[1]), IF rest = <<>> THEN <<>> ELSE <<0>> \o rest)

\* a * 2^s
NatShl(a, s) ==
    IF a = <<>> THEN <<>>
    ELSE [i \in 1 .. (s \div 14) |-> 0] \o NatMulLimb(a, 2^(s % 14))

\* floor(a / 2^s)
NatShr(a, s) ==
    LET w == s \div 14
        b == s % 14
    IN  IF w >= Len(a) THEN <<>>
        ELSE Trim([i \in 1 .. (Len(a) - w) |->
                     (a[i + w] \div 2^b) + (Limb(a, i + w + 1) % 2^b) * 2^(14 - b)])

\* bit i of a (bit 0 is the lowest)
NatBit(a, i) == (Limb(a, (i \div 14) + 1) \div 2^(i % 14)) % 2

\* no bit below bit i is set
NatLowZero(a, i) ==
    /\ \A j \in 1 .. (i \div 14) : Limb(a, j) = 0
    /\ Limb(a, (i \div 14) + 1) % 2^(i % 14) = 0

RECURSIVE Bits(_)
Bits(n) == IF n = 0 THEN 0 ELSE 1 + Bits(n \div 2)

NatBitLen(a) == IF a = <<>> THEN 0 ELSE 14 * (Len(a) - 1) + Bits(a[Len(a)])

RECURSIVE TrailingZeros(_, _)
\* number of zero bits below the lowest set bit of a # 0, counted from bit i
TrailingZeros(a, i) == IF NatBit(a, i) = 1 THEN i ELSE TrailingZeros(a, i + 1)

RECURSIVE DivSmallFrom(_, _, _, _)
\* long division by k < 2^17 from limb i down; the quotient limbs, then the remainder
DivSmallFrom(a, k, i, r) ==
    IF i = 0 THEN [q |-> <<>>, r |-> r]
    ELSE LET t == r * LimbBase + a[i]
             d == DivSmallFrom(a, k, i - 1, t % k)
         IN  [q |-> d.q \o <<t \div k>>, r |-> d.r]

NatDivSmall(a, k) ==
    LET d == DivSmallFrom(a, k, Len(a), 0) IN [q |-> Trim(d.q), r |-> d.r]

RECURSIVE SqrtFrom(_, _, _)
\* digit-by-digit square root: rem is what is left of a, res the root so far
\* (scaled), j the exponent of the power of four tried next
SqrtFrom(rem, res, j) ==
    IF j < 0 THEN [root |-> res, exact |-> rem = <<>>]
    ELSE LET try == NatAdd(res, NatShl(<<1>>, 2 * j))
         IN  IF NatCmp(rem, try) >= 0
             THEN SqrtFrom(NatSub(rem, try), NatAdd(NatShr(res, 1), NatShl(<<1>>, 2 * j)), j - 1)
             ELSE SqrtFrom(rem, NatShr(res, 1), j - 1)

\* floor(sqrt(a)) and whether a is a perfect square
NatSqrt(a) == SqrtFrom(a, <<>>, NatBitLen(a) \div 2)

----------------------------------------------------------------------------
(* IEEE-754 doubles: [neg, m, e] stands for (-1)^neg * m * 2^e with m a     *)
(* natural number of at most 53 bits that is odd, or zero with e = 0 and   *)
(* neg = FALSE, so that equal numbers are equal records.  The exponent     *)
(* range of a double is never approached by the program's values.          *)

FloatZero == [neg |-> FALSE, m |-> <<>>, e |-> 0]

\* the double nearest to (-1)^neg * (M + f) * 2^e, ties to even, where
\* 0 <= f < 1 and sticky tells whether f > 0 (M then has more than 54 bits)
RoundNearestEven(neg, M, e, sticky) ==
    IF M = <<>> THEN FloatZero
    ELSE LET s     == NatBitLen(M) - 53
             q     == IF s > 0 THEN NatShr(M, s) ELSE M
             up    == /\ s > 0
                      /\ NatBit(M, s - 1) = 1
                      /\ (sticky \/ ~NatLowZero(M, s - 1) \/ NatBit(q, 0) = 1)
             r     == IF up THEN NatAdd(q, <<1>>) ELSE q
             z     == TrailingZeros(r, 0)
         IN  [neg |-> neg, m |-> NatShr(r, z), e |-> e + (IF s > 0 THEN s ELSE 0) + z]

\* int -> float for 0 <= n < 2^28
FloatOfInt(n) == RoundNearestEven(FALSE, NatOfInt(n), 0, FALSE)

\* the double nearest to num / den: a decimal literal such as 0.015 = 15/1000,
\* or the quotient of two small integers; 0 <= num < 2^28, 0 < den < 2^17
FloatOfRatio(neg, num, den) ==
    LET d == NatDivSmall(NatShl(NatOfInt(num), 84), den)
    IN  RoundNearestEven(neg, d.q, -84, d.r # 0)

FloatNeg(x) == IF x.m = <<>> THEN x ELSE [x EXCEPT !.neg = ~x.neg]

FloatMul(x, y) == RoundNearestEven(x.neg # y.neg, NatMul(x.m, y.m), x.e + y.e, FALSE)

\* x + y before rounding, as [neg, M, e]
ExactSum(x, y) ==
    LET e  == IF x.e < y.e THEN x.e ELSE y.e
        X  == NatShl(x.m, x.e - e)
        Y  == NatShl(y.m, y.e - e)
        c  == NatCmp(X, Y)
    IN  IF x.neg = y.neg THEN [neg |-> x.neg, M |-> NatAdd(X, Y), e |-> e]
        ELSE IF c = 0 THEN [neg |-> FALSE, M |-> <<>>, e |-> 0]
        ELSE IF c > 0 THEN [neg |-> x.neg, M |-> NatSub(X, Y), e |-> e]
        ELSE [neg |-> y.neg, M |-> NatSub(Y, X), e |-> e]

FloatAdd(x, y) ==
    LET d == ExactSum(x, y) IN RoundNearestEven(d.neg, d.M, d.e, FALSE)

FloatSub(x, y) == FloatAdd(x, FloatNeg(y))

FloatLess(x, y) == ExactSum(x, FloatNeg(y)).neg

FloatLeq(x, y) == ~FloatLess(y, x)

\* x ** 1.5 for x >= 0: the double nearest to sqrt(x^3)
FloatPow15(x) ==
    LET cube == NatMul(NatMul(x.m, x.m), x.m)
        odd  == (3 * x.e) % 2 = 1
        M    == IF odd THEN NatShl(cube, 1) ELSE cube
        E    == IF odd THEN 3 * x.e - 1 ELSE 3 * x.e
        t    == IF NatBitLen(M) >= 112 THEN 0 ELSE (113 - NatBitLen(M)) \div 2
        r    == NatSqrt(NatShl(M, 2 * t))
    IN  IF x.m = <<>> THEN FloatZero
        ELSE RoundNearestEven(FALSE, r.root, (E \div 2) - t, ~r.exact)

\* (variant: the digits after the second decimal are cut off)
RoundHundredthsTrunc(x) ==
    LET M == NatMul(x.m, NatOfInt(100))
    IN  NatToInt(IF x.e < 0 THEN NatShr(M, -x.e) ELSE NatShl(M, x.e))

\* the integer nearest to 100 * x for x >= 0, ties to even: the number of
\* hundredths "{:.2f}" prints
RoundHundredths(x) ==
    LET M  == NatMul(x.m, NatOfInt(100))
        s  == -x.e
        q  == IF s > 0 THEN NatShr(M, s) ELSE NatShl(M, x.e)
        up == /\ s > 0
              /\ NatBit(M, s - 1) = 1
              /\ (~NatLowZero(M, s - 1) \/ NatBit(q, 0) = 1)
    IN  NatToInt(q) + (IF up THEN 1 ELSE 0)

----------------------------------------------------------------------------
(* Exposure calculator *)

\* digits of a number of hundredths, as "{:.2f}" writes them
FormatFixed2(h) ==
    ToString(h \div 100) \o "." \o ToString((h % 100) \div 10) \o ToString(h % 10)

\* the doubles the literals 0.04 and 0.1 denote
FLIGHT_DOSE == FloatOfRatio(FALSE, FLIGHT_DOSE_MILLI, 1000)
XRAY_DOSE == FloatOfRatio(FALSE, XRAY_DOSE_MILLI, 1000)

\* (flights * 0.04) + (xrays * 0.1): each int converts exactly, each
\* product and the sum are rounded
total_dose(flights, xrays) ==
    FloatAdd(FloatMul(FloatOfInt(flights), FLIGHT_DOSE),
             FloatMul(FloatOfInt(xrays), XRAY_DOSE))

\* (variant: the text is computed from the slider positions held before the change)
update_dose_stale(flights, xrays) ==
    "Your estimated annual radiation dose from selected activities: "
        \o FormatFixed2(RoundHundredths(total_dose(flight_slider, xray_slider))) \o " mSv"

update_dose(flights, xrays) ==
    "Your estimated annual radiation dose from selected activities: "
        \o FormatFixed2(RoundHundredths(total_dose(flights, xrays))) \o " mSv"

Init ==
    /\ flight_slider = SLIDER_INITIAL
    /\ xray_slider = SLIDER_INITIAL
    /\ total_dose_output = ""
    /\ radiation_sources = SourceTable
    /\ call = [model |-> "none"]
    /\ pc = "idle"
    /\ risk = FloatZero

\* the page is served: the sliders show their initial values and Dash fires
\* the callback once
PageLoad ==
    /\ flight_slider' = SLIDER_INITIAL
    /\ xray_slider' = SLIDER_INITIAL
    /\ total_dose_output' = update_dose(SLIDER_INITIAL, SLIDER_INITIAL)
    /\ UNCHANGED <<radiation_sources, modelVars>>

\* the flight slider is moved; the callback runs with both slider values
SetFlightSlider(f) ==
    /\ total_dose_output # ""
    /\ flight_slider' = f
    /\ total_dose_output' = update_dose(f, xray_slider)
    /\ UNCHANGED <<xray_slider, radiation_sources, modelVars>>

SetXraySlider(x) ==
    /\ total_dose_output # ""
    /\ xray_slider' = x
    /\ total_dose_output' = update_dose(flight_slider, x)
    /\ UNCHANGED <<flight_slider, radiation_sources, modelVars>>

CalcNext ==
    \/ PageLoad
    \/ \E f \in 0..FLIGHT_SLIDER_MAX : SetFlightSlider(f)
    \/ \E x \in 0..XRAY_SLIDER_MAX : SetXraySlider(x)

CalcSpec == Init /\ [][CalcNext]_vars

----------------------------------------------------------------------------
(* Dose-response models *)

\* scalar doses besides the samples: n / DoseScale mSv for n in 0 .. MaxDose * DoseScale
DoseScale == 2
MaxDose == 100
MaxThreshold == 60

\* np.linspace(0, 100, 100): step = (stop - start) / (num - 1),
\* y = arange(num) * step + start, and the last element is set to stop
dose_values ==
    LET start == FloatOfInt(DOSE_START)
        step  == FloatOfRatio(FALSE, DOSE_STOP - DOSE_START, NUM_SAMPLES - 1)
    IN  [i \in 1 .. NUM_SAMPLES |->
            IF i = NUM_SAMPLES THEN FloatOfInt(DOSE_STOP)
            ELSE FloatAdd(FloatMul(FloatOfInt(i - 1), step), start)]

\* the double nearest to n / DoseScale
GridDose(n) == FloatOfRatio(FALSE, n, DoseScale)

GridDoses == [n \in 0 .. MaxDose * DoseScale |-> GridDose(n)]

\* the scalar doses the functions are called with: every sample and every grid dose
Doses == {dose_values[i] : i \in 1 .. NUM_SAMPLES} \cup {GridDoses[n] : n \in DOMAIN GridDoses}

DoseArray == [items |-> dose_values]

Thresholds == 0 .. MaxThreshold

IsArray(x) == "items" \in DOMAIN x

\* 0.015 * dose ** 1.5
supra_linear_elem(d) == FloatMul(FloatOfRatio(FALSE, 15, 1000), FloatPow15(d))

supra_linear_model(dose) ==
    IF IsArray(dose)
    THEN [items |-> [i \in DOMAIN dose.items |-> supra_linear_elem(dose.items[i])]]
    ELSE supra_linear_elem(dose)

\* (variant: 0.01 * dose ** 2)
lnt_elem_squared(d) == FloatMul(FloatOfRatio(FALSE, 1, 100), FloatMul(d, d))

\* 0.01 * dose
lnt_elem(d) == FloatMul(FloatOfRatio(FALSE, 1, 100), d)

lnt_model(dose) ==
    IF IsArray(dose)
    THEN [items |-> [i \in DOMAIN dose.items |-> lnt_elem(dose.items[i])]]
    ELSE lnt_elem(dose)

\* (variant: -0.005 * dose + 0.0001 * dose ** 2)
linear_quadratic_elem_neg(d) ==
    FloatAdd(FloatMul(FloatOfRatio(TRUE, 5, 1000), d),
             FloatMul(FloatOfRatio(FALSE, 1, 10000), FloatMul(d, d)))

\* 0.005 * dose + 0.0001 * dose ** 2 (the square is the rounded product dose * dose)
linear_quadratic_elem(d) ==
    FloatAdd(FloatMul(FloatOfRatio(FALSE, 5, 1000), d),
             FloatMul(FloatOfRatio(FALSE, 1, 10000), FloatMul(d, d)))

linear_quadratic_model(dose) ==
    IF IsArray(dose)
    THEN [items |-> [i \in DOMAIN dose.items |-> linear_quadratic_elem(dose.items[i])]]
    ELSE linear_quadratic_elem(dose)

\* (variant: 0.0001 for the quadratic coefficient)
hormesis_low_lq(d) ==
    FloatAdd(FloatMul(FloatOfRatio(TRUE, 5, 1000), d),
             FloatMul(FloatOfRatio(FALSE, 1, 10000), FloatMul(d, d)))

\* the two value arguments of np.where in hormesis_model; numpy evaluates
\* both at every dose and then selects:
\* -0.005 * dose + 0.0002 * dose ** 2   and   0.01 * dose
hormesis_low(d) ==
    FloatAdd(FloatMul(FloatOfRatio(TRUE, 5, 1000), d),
             FloatMul(FloatOfRatio(FALSE, 2, 10000), FloatMul(d, d)))

hormesis_high(d) == FloatMul(FloatOfRatio(FALSE, 1, 100), d)

\* (variant: dose <= 20)
hormesis_elem_le(d) ==
    IF FloatLeq(d, FloatOfInt(HORMESIS_BREAK)) THEN hormesis_low(d) ELSE hormesis_high(d)

\* np.where(dose < 20, low, high)
hormesis_elem(d) ==
    IF FloatLess(d, FloatOfInt(HORMESIS_BREAK)) THEN hormesis_low(d) ELSE hormesis_high(d)

hormesis_model(dose) ==
    IF IsArray(dose)
    THEN [items |-> [i \in DOMAIN dose.items |-> hormesis_elem(dose.items[i])]]
    ELSE hormesis_elem(dose)

\* (variant: 0.01 * dose above the threshold)
linear_threshold_elem_nosub(d, t) ==
    IF FloatLess(d, FloatOfInt(t)) THEN FloatZero
    ELSE FloatMul(FloatOfRatio(FALSE, 1, 100), d)

\* (variant: 0.01 * (dose - threshold) without the np.where)
linear_threshold_elem_unclamped(d, t) ==
    FloatMul(FloatOfRatio(FALSE, 1, 100), FloatSub(d, FloatOfInt(t)))

\* np.where(dose < threshold, 0, 0.01 * (dose - threshold)); threshold an int
linear_threshold_elem(d, t) ==
    IF FloatLess(d, FloatOfInt(t)) THEN FloatZero
    ELSE FloatMul(FloatOfRatio(FALSE, 1, 100), FloatSub(d, FloatOfInt(t)))

linear_threshold_model(dose, t) ==
    IF IsArray(dose)
    THEN [items |-> [i \in DOMAIN dose.items |-> linear_threshold_elem(dose.items[i], t)]]
    ELSE linear_threshold_elem(dose, t)

\* the calls the evaluator is given: a model and a dose (one of Doses, or
\* the array dose_values as at lines 46-50), and for the linear threshold
\* model an optional threshold
Calls ==
    [model : {"supra_linear", "lnt", "linear_quadratic", "hormesis", "linear_threshold"},
     dose : Doses \cup {DoseArray}]
    \cup [model : {"linear_threshold"}, dose : Doses \cup {DoseArray}, threshold : Thresholds]

ModelInit ==
    /\ flight_slider = SLIDER_INITIAL
    /\ xray_slider = SLIDER_INITIAL
    /\ total_dose_output = ""
    /\ radiation_sources = SourceTable
    /\ call \in Calls
    /\ pc = "called"
    /\ risk = FloatZero

Return(r) ==
    /\ pc' = "returned"
    /\ risk' = r
    /\ UNCHANGED calcVars

EvalSupraLinear ==
    /\ pc = "called" /\ call.model = "supra_linear"
    /\ Return(supra_linear_model(call.dose))
    /\ UNCHANGED call

EvalLnt ==
    /\ pc = "called" /\ call.model = "lnt"
    /\ Return(lnt_model(call.dose))
    /\ UNCHANGED call

EvalLinearQuadratic ==
    /\ pc = "called" /\ call.model = "linear_quadratic"
    /\ Return(linear_quadratic_model(call.dose))
    /\ UNCHANGED call

EvalHormesis ==
    /\ pc = "called" /\ call.model = "hormesis"
    /\ Return(hormesis_model(call.dose))
    /\ UNCHANGED call

\* called with an explicit threshold
EvalLinearThreshold ==
    /\ pc = "called" /\ call.model = "linear_threshold"
    /\ "threshold" \in DOMAIN call
    /\ Return(linear_threshold_model(call.dose, call.threshold))
    /\ UNCHANGED call

\* called as linear_threshold_model(dose): the parameter takes its default
EvalLinearThresholdDefault ==
    /\ pc = "called" /\ call.model = "linear_threshold"
    /\ "threshold" \notin DOMAIN call
    /\ call' = [model |-> "linear_threshold", dose |-> call.dose,
                threshold |-> DEFAULT_THRESHOLD]
    /\ Return(linear_threshold_model(call.dose, DEFAULT_THRESHOLD))

ModelNext ==
    \/ EvalSupraLinear
    \/ EvalLnt
    \/ EvalLinearQuadratic
    \/ EvalHormesis
    \/ EvalLinearThreshold
    \/ EvalLinearThresholdDefault

ModelSpec == ModelInit /\ [][ModelNext]_vars

----------------------------------------------------------------------------
(* Properties *)

Shown == total_dose_output # ""

\* a number of hundredths written with two decimals
TwoDecimals(h) ==
    LET digit == [d \in 0..9 |-> <<"0", "1", "2", "3", "4", "5", "6", "7", "8", "9">>[d + 1]]
    IN  digit[h \div 100] \o "." \o digit[(h \div 10) % 10] \o digit[h % 10]

DoseText(h) ==
    "Your estimated annual radiation dose from selected activities: "
        \o TwoDecimals(h) \o " mSv"

\* C1: for every flight count F in 0..50 and X-ray count X in 0..20 the
\* callback reports (4F + 10X) hundredths of a mSv with exactly two decimals;
\* (0,0) gives 0.00, (10,5) gives 0.90 and (50,20) gives 4.00.
C1_TotalIsExactHundredths ==
    Shown =>
        /\ total_dose_output = DoseText(4 * flight_slider + 10 * xray_slider)
        /\ (flight_slider = 0 /\ xray_slider = 0) => total_dose_output =
             "Your estimated annual radiation dose from selected activities: 0.00 mSv"
        /\ (flight_slider = 10 /\ xray_slider = 5) => total_dose_output =
             "Your estimated annual radiation dose from selected activities: 0.90 mSv"
        /\ (flight_slider = 50 /\ xray_slider = 20) => total_dose_output =
             "Your estimated annual radiation dose from selected activities: 4.00 mSv"

C1_Witness ==
    /\ flight_slider = FLIGHT_SLIDER_MAX /\ xray_slider = XRAY_SLIDER_MAX
    /\ total_dose_output =
         "Your estimated annual radiation dose from selected activities: 4.00 mSv"

\* what one invocation of the callback computes from the current slider pair
FreshOutput ==
    "Your estimated annual radiation dose from selected activities: "
        \o FormatFixed2(RoundHundredths(total_dose(flight_slider, xray_slider))) \o " mSv"

\* C2: after any sequence of slider changes the displayed total depends only
\* on the current (flights, xrays) pair: it is what a single invocation with
\* that pair returns, and a step that leaves the pair as it was leaves the
\* displayed text as it was.
C2_OutputDependsOnCurrentPairOnly ==
    /\ [](Shown => total_dose_output = FreshOutput)
    /\ [][(Shown /\ flight_slider' = flight_slider /\ xray_slider' = xray_slider)
            => total_dose_output' = total_dose_output]_vars

C2_Witness ==
    /\ Shown /\ flight_slider = 3 /\ xray_slider = 7
    /\ total_dose_output = FreshOutput

\* a call of the named model has returned
Returned(m) == pc = "returned" /\ call.model = m

\* the (dose, risk) pairs of the call: one for a scalar, one per element for an array
Samples ==
    IF IsArray(call.dose)
    THEN {<<call.dose.items[i], risk.items[i]>> : i \in DOMAIN call.dose.items}
    ELSE {<<call.dose, risk>>}

\* exact arithmetic on numbers [neg, m, e] = (-1)^neg * m * 2^e, m of any size
XInt(k) == [neg |-> k < 0, m |-> NatOfInt(IF k < 0 THEN -k ELSE k), e |-> 0]
XNeg(a) == [a EXCEPT !.neg = ~a.neg]
XMul(a, b) == [neg |-> a.neg # b.neg, m |-> NatMul(a.m, b.m), e |-> a.e + b.e]
XAdd(a, b) == LET s == ExactSum(a, b) IN [neg |-> s.neg, m |-> s.M, e |-> s.e]
XLeq(a, b) == LET s == ExactSum(b, XNeg(a)) IN s.M = <<>> \/ ~s.neg
XAbsLeq(a, t) == XLeq(a, t) /\ XLeq(XNeg(t), a)

\* k * 2^-50 (2^-50 is about 8.9e-16)
Tol(k) == [neg |-> FALSE, m |-> NatOfInt(k), e |-> -50]

Twenty == FloatOfInt(HORMESIS_BREAK)

\* C3 as stated: hormesis_model(d) = -0.005 d + 0.0002 d^2 for 0 <= d < 20
\* and = 0.01 d for d >= 20; risk(10) = -0.03 and risk(20) = 0.2.
C3_HormesisValuesAsStated ==
    Returned("hormesis") =>
        \A p \in Samples :
            LET d == p[1]
                r == p[2]
            IN  /\ FloatLess(d, Twenty) =>
                     r = FloatAdd(FloatMul(FloatOfRatio(TRUE, 5, 1000), d),
                                  FloatMul(FloatOfRatio(FALSE, 2, 10000), FloatMul(d, d)))
                /\ ~FloatLess(d, Twenty) => r = FloatMul(FloatOfRatio(FALSE, 1, 100), d)
                /\ d = FloatOfInt(10) => r = FloatOfRatio(TRUE, 3, 100)
                /\ d = Twenty => r = FloatOfRatio(FALSE, 2, 10)

\* C3 (amended): the boundary dose 20 belongs to the upper branch; for
\* 0 <= d < 20 hormesis_model(d) is -0.005 d + 0.0002 d^2 and for d >= 20
\* it is 0.01 d, each computed in double arithmetic (for doses up to 100
\* the result is within 2^-50 of the real value); risk(20) = 0.2, and
\* risk(10) is -0.030000000000000002, the double next below -0.03.
C3_HormesisPiecewise ==
    Returned("hormesis") =>
        \A p \in Samples :
            LET d == p[1]
                r == p[2]
            IN  /\ FloatLess(d, Twenty) =>
                     /\ r = FloatAdd(FloatMul(FloatOfRatio(TRUE, 5, 1000), d),
                                     FloatMul(FloatOfRatio(FALSE, 2, 10000), FloatMul(d, d)))
                     /\ XAbsLeq(XAdd(XMul(XInt(10000), r),
                                     XAdd(XMul(XInt(-2), XMul(d, d)), XMul(XInt(50), d))),
                                Tol(10000))
                /\ ~FloatLess(d, Twenty) =>
                     /\ r = FloatMul(FloatOfRatio(FALSE, 1, 100), d)
                     /\ FloatLeq(d, FloatOfInt(DOSE_STOP)) =>
                          XAbsLeq(XAdd(XMul(XInt(100), r), XNeg(d)), Tol(100))
                /\ d = FloatOfInt(10) =>
                     FloatSub(r, FloatOfRatio(TRUE, 3, 100)) = [neg |-> TRUE, m |-> <<1>>, e |-> -58]
                /\ d = Twenty => r = FloatOfRatio(FALSE, 2, 10)

C3_Witness ==
    /\ Returned("hormesis") /\ call.dose = Twenty
    /\ risk = FloatOfRatio(FALSE, 2, 10)

\* C4 as stated: at dose 20 the value is 0.2 and the low branch arrives at
\* about -0.042 (to the three decimals given).
C4_LeftLimitIsMinus0042 ==
    (Returned("hormesis") /\ call.dose = Twenty) =>
        /\ risk = FloatOfRatio(FALSE, 2, 10)
        /\ XAbsLeq(XAdd(XMul(XInt(1000), hormesis_low(call.dose)), XInt(42)), XInt(1))

\* C4 (amended): the hormesis model has a jump at dose 20: the low branch
\* arrives at about -0.02 as d tends to 20 from below (for 19 <= d < 20 the
\* value lies between -0.02 - 0.003 (20 - d) and -0.02, and the low-branch
\* expression at 20 is -0.02, each up to 2^-50), while the value at d = 20
\* is 0.2.
C4_JumpAt20 ==
    Returned("hormesis") =>
        \A p \in Samples :
            LET d == p[1]
                r == p[2]
                off == XAdd(XMul(XInt(1000), r), XInt(20))
            IN  /\ d = Twenty =>
                     /\ r = FloatOfRatio(FALSE, 2, 10)
                     /\ XAbsLeq(XAdd(XMul(XInt(1000), hormesis_low(d)), XInt(20)), Tol(1000))
                /\ (FloatLeq(FloatOfInt(19), d) /\ FloatLess(d, Twenty)) =>
                     /\ XLeq(off, Tol(1000))
                     /\ XLeq(XNeg(Tol(1000)),
                             XAdd(off, XMul(XInt(3), XAdd(XInt(20), XNeg(d)))))

C4_Witness ==
    /\ Returned("hormesis") /\ call.dose = GridDose(HORMESIS_BREAK * DoseScale - 1)
    /\ FloatLess(risk, FloatOfRatio(TRUE, 2, 100))

\* C5: linear_threshold_model(d, t) = 0 for d < t and 0.01 (d - t) for
\* d >= t (computed in double arithmetic, within 2^-50 of the real value),
\* for every threshold t >= 0; with the default threshold 50, risk(d) = 0
\* for d < 50, risk(50) = 0 and risk(60) = 0.1.
C5_LinearThreshold ==
    Returned("linear_threshold") =>
        \A p \in Samples :
            LET d == p[1]
                r == p[2]
                t == call.threshold
            IN  /\ FloatLess(d, FloatOfInt(t)) => r = FloatZero
                /\ ~FloatLess(d, FloatOfInt(t)) =>
                     /\ r = FloatMul(FloatOfRatio(FALSE, 1, 100), FloatSub(d, FloatOfInt(t)))
                     /\ XAbsLeq(XAdd(XMul(XInt(100), r), XAdd(XInt(t), XNeg(d))), Tol(100))
                /\ (t = 50 /\ FloatLeq(d, FloatOfInt(50))) => r = FloatZero
                /\ (t = 50 /\ d = FloatOfInt(60)) => r = FloatOfRatio(FALSE, 1, 10)

C5_Witness ==
    /\ Returned("linear_threshold") /\ call.threshold = DEFAULT_THRESHOLD
    /\ call.dose = FloatOfInt(60) /\ risk = FloatOfRatio(FALSE, 1, 10)

\* C6: for all five models (the linear threshold model with its default
\* threshold 50) the risk at dose 0 is 0.
C6_ZeroAtZero ==
    (/\ pc = "returned"
     /\ call.model = "linear_threshold" => call.threshold = DEFAULT_THRESHOLD)
        => \A p \in Samples : p[1] = FloatZero => p[2] = FloatZero

C6_Witness ==
    /\ Returned("linear_threshold") /\ call.dose = FloatZero
    /\ call.threshold = DEFAULT_THRESHOLD /\ risk = FloatZero

\* the two models on every scalar dose
SupraOnDoses == [b \in Doses |-> supra_linear_elem(b)]
LinearQuadraticOnDoses == [b \in Doses |-> linear_quadratic_elem(b)]

\* C7: the supra-linear and the linear-quadratic models are non-decreasing
\* over [0, 100]: for doses a <= b, model(a) <= model(b).
C7_Monotonic ==
    /\ Returned("supra_linear") =>
         \A p \in Samples : \A b \in Doses :
             /\ FloatLeq(p[1], b) => FloatLeq(p[2], SupraOnDoses[b])
             /\ FloatLeq(b, p[1]) => FloatLeq(SupraOnDoses[b], p[2])
    /\ Returned("linear_quadratic") =>
         \A p \in Samples : \A b \in Doses :
             /\ FloatLeq(p[1], b) => FloatLeq(p[2], LinearQuadraticOnDoses[b])
             /\ FloatLeq(b, p[1]) => FloatLeq(LinearQuadraticOnDoses[b], p[2])

C7_Witness ==
    /\ Returned("linear_quadratic") /\ call.dose = FloatOfInt(10)
    /\ FloatLess(risk, LinearQuadraticOnDoses[FloatOfInt(11)])

SupraOnGrid == [n \in DOMAIN GridDoses |-> supra_linear_elem(GridDoses[n])]

\* C8: under the supra-linear model risk increases more steeply at low
\* doses: for doses a < b and a step h > 0 with b + h <= 100, the increase
\* from a to a + h is at least the increase from b to b + h (the increases
\* compared exactly, on the grid doses).
C8_SteeperAtLowDoses ==
    Returned("supra_linear") =>
        \A na \in DOMAIN GridDoses :
            call.dose = GridDoses[na] =>
                \A nb \in DOMAIN GridDoses, h \in DOMAIN GridDoses :
                    (na < nb /\ h > 0 /\ nb + h <= MaxDose * DoseScale) =>
                        XLeq(XAdd(SupraOnGrid[nb + h], XNeg(SupraOnGrid[nb])),
                             XAdd(SupraOnGrid[na + h], XNeg(risk)))

\* C9: the LNT model is linear: lnt_model(d) = 0.01 d (computed in double
\* arithmetic, within 2^-50 of the real value) and
\* lnt_model(2 d) = 2 lnt_model(d) for every dose d >= 0.
C9_LntLinear ==
    Returned("lnt") =>
        \A p \in Samples :
            LET d == p[1]
                r == p[2]
                two == FloatOfInt(2)
            IN  /\ r = FloatMul(FloatOfRatio(FALSE, 1, 100), d)
                /\ XAbsLeq(XAdd(XMul(XInt(100), r), XNeg(d)), Tol(100))
                /\ lnt_elem(FloatMul(two, d)) = FloatMul(two, r)

C9_Witness ==
    /\ Returned("lnt") /\ call.dose = FloatOfInt(30)
    /\ risk = FloatOfRatio(FALSE, 3, 10)

\* C10: in every state reachable by slider changes and callback invocations
\* the per-flight and per-chest-X-ray doses the calculator uses equal the
\* table entries "Flight (NYC to LA)" and "Chest X-ray", and the table has
\* its initial contents.
C10_CalculatorAgreesWithTable ==
    /\ radiation_sources = SourceTable
    /\ FLIGHT_DOSE_MILLI = radiation_sources["Flight (NYC to LA)"]
    /\ XRAY_DOSE_MILLI = radiation_sources["Chest X-ray"]
    /\ Shown => total_dose_output = DoseText(
           (flight_slider * radiation_sources["Flight (NYC to LA)"]
              + xray_slider * radiation_sources["Chest X-ray"]) \div 10)

C10_Witness ==
    /\ Shown /\ flight_slider = 10 /\ xray_slider = 5
    /\ radiation_sources["Flight (NYC to LA)"] = 40
====
